---- MODULE Spec2Model ----
(***************************************************************************)
(* The /api/razorpay request handler of edusource-backend (src/razorpay.js *)
(* mounted by src/api/server.js): order creation with the payment provider *)
(* and payment verification followed by enrolment in the document store.   *)
(*                                                                         *)
(* JavaScript runs each handler synchronously up to its next `await`, so   *)
(* one action is one synchronous stretch of the handler: Receive is the    *)
(* code from line 63 up to the first await of the request, and every       *)
(* *Returns action is the completion of one awaited call together with the *)
(* code that runs after it up to the next await or response.  Requests     *)
(* interleave only at the awaits.                                          *)
(***************************************************************************)
EXTENDS Integers, Sequences, FiniteSets, TLC

\* Number of HTTP requests in flight over one run of the service.
NumReqs == 2
Reqs == 1..NumReqs

\* razorpay.js:101, the floor of `amount` in paisa.
MinAmount == 100

\* undefined / "" : what `!x` is true of for the string fields of a body.
Absent == ""

\* The value of process.env.RAZORPAY_KEY_SECRET when it is set.
SecretValue == "s3cret"
KeyIdValue == "rzp_key"

VARIABLES
    RAZORPAY_KEY_ID,      \* razorpay.js:43  (Absent when the variable is unset)
    RAZORPAY_KEY_SECRET,  \* razorpay.js:44
    instance,             \* razorpay.js:47-60, TRUE iff the Razorpay client exists
    firebaseApp,          \* razorpay.js:15-39, TRUE iff admin.initializeApp succeeded
    db,                   \* razorpay.js:41, "ok" | "no_app" | "throws"
    courses,              \* collection 'courses': id -> [enrolledUsers, price]
    enrollments,          \* collection 'enrollments', in order of creation
    orders,               \* orders created at the payment provider
    pc,                   \* where each request's handler stands
    req,                  \* each request: [method, body]
    courseData,           \* razorpay.js:159, each request's snapshot of the course
    resp,                 \* the responses sent for each request, in order
    calls,                \* history: the outbound calls of each request, in order
    seenDone,             \* history: the requests already finished when this one arrived
    enrolledOnArrival     \* history: the user was in the course's array on arrival

vars == <<RAZORPAY_KEY_ID, RAZORPAY_KEY_SECRET, instance, firebaseApp, db, courses,
          enrollments, orders, pc, req, courseData, resp, calls, seenDone,
          enrolledOnArrival>>

config == <<RAZORPAY_KEY_ID, RAZORPAY_KEY_SECRET, instance, firebaseApp, db>>
store == <<courses, enrollments>>

----------------------------------------------------------------------------
(* Pure helpers.                                                           *)

\* crypto.createHmac('sha256', key).update(msg).digest('hex'), razorpay.js:140-142.
\* SHA-256 is idealised as collision free: the digest names its key and message.
HmacHex(key, msg) == "hmac-sha256(" \o key \o "," \o msg \o ")"

\* razorpay.js:141, the signed message.
SignedPayload(orderId, paymentId) == orderId \o "|" \o paymentId

\* Array.prototype.includes, razorpay.js:162.
Includes(arr, x) == \E i \in 1..Len(arr) : arr[i] = x

\* FieldValue.arrayUnion applied by the store, razorpay.js:168-170: the element is
\* added at the end unless the array already holds it.
ArrayPush(arr, x) == Append(arr, x)
ArrayUnion(arr, x) == IF Includes(arr, x) THEN arr ELSE Append(arr, x)

\* typeof body === 'object' (razorpay.js:84): true of objects and of null.
TypeofObject(body) == body.kind \in {"object", "null"}

\* A response: HTTP status, the `success` member of the JSON body ("none" when the
\* body has no such member or there is no body), and its `status` or message tag.
Response(code, success, tag) == [code |-> code, success |-> success, tag |-> tag]


----------------------------------------------------------------------------
(* Requests.  A body is what the JSON parser hands to the handler: an      *)
(* object with the members below (Absent / 0 for a member that is missing  *)
(* or falsy), null, or a string.                                           *)

Methods == {"OPTIONS", "GET", "POST"}

Body(action, amount, currency, courseId, userId, paymentId, orderId, signature, title) ==
    [kind |-> "object", action |-> action, amount |-> amount, currency |-> currency,
     courseId |-> courseId, userId |-> userId, razorpay_payment_id |-> paymentId,
     razorpay_order_id |-> orderId, razorpay_signature |-> signature,
     courseTitle |-> title]

NullBody == [Body(Absent, 0, Absent, Absent, Absent, Absent, Absent, Absent, Absent)
                EXCEPT !.kind = "null"]
StringBody == [NullBody EXCEPT !.kind = "string"]
EmptyBody == [NullBody EXCEPT !.kind = "object"]

CreateOrder(amount, currency, courseId, userId) ==
    Body("create_order", amount, currency, courseId, userId,
         Absent, Absent, Absent, Absent)

\* The payload the checkout hands to the client after a payment: the provider
\* signs orderId|paymentId with the shared secret.
VerifyPayment(courseId, userId, signature) ==
    Body("verify_payment", 0, Absent, courseId, userId, "pay_1", "order_1",
         signature, "Algebra")

GoodSignature == HmacHex(SecretValue, SignedPayload("order_1", "pay_1"))
\* Signatures the provider never issued for (order_1, pay_1): the two ids signed
\* in the other order, and the right message under another key.
BadSignatures == {HmacHex(SecretValue, SignedPayload("pay_1", "order_1")),
                  HmacHex("guess", SignedPayload("order_1", "pay_1"))}

CreateFields == {"amount", "currency", "courseId", "userId"}
VerifyFields == {"razorpay_payment_id", "razorpay_order_id", "razorpay_signature",
                 "courseId", "courseTitle", "userId"}

Without(body, f) == [body EXCEPT ![f] = IF f = "amount" THEN 0 ELSE Absent]

CreateBodies ==
    {CreateOrder(a, "INR", "c1", "u1") : a \in {MinAmount - 1, MinAmount, 500}}
    \cup {Without(CreateOrder(500, "INR", "c1", "u1"), f) : f \in CreateFields}

VerifyBodies ==
    {VerifyPayment("c1", "u1", GoodSignature), VerifyPayment("c1", "u2", GoodSignature),
     VerifyPayment("c404", "u1", GoodSignature)}
    \cup {VerifyPayment("c1", "u1", s) : s \in BadSignatures}
    \cup {Without(VerifyPayment("c1", "u1", GoodSignature), f) : f \in VerifyFields}

Bodies == CreateBodies \cup VerifyBodies
          \cup {NullBody, StringBody, [EmptyBody EXCEPT !.action = "refund"]}

Requests == {[method |-> m, body |-> EmptyBody] : m \in {"OPTIONS", "GET"}}
            \cup {[method |-> "POST", body |-> b] : b \in Bodies}

NoRequest == [method |-> "none", body |-> EmptyBody]
NoData == [exists |-> FALSE, enrolledUsers |-> <<>>, price |-> 0]

----------------------------------------------------------------------------
(* Validation, razorpay.js:97, 101 and 134.                                *)

MissingOrderDetailsButUser(b) ==
    b.amount = 0 \/ b.currency = Absent \/ b.courseId = Absent
MissingOrderDetails(b) ==
    b.amount = 0 \/ b.currency = Absent \/ b.courseId = Absent \/ b.userId = Absent

AmountTooLow(b) == b.amount < MinAmount

MissingVerificationDetails(b) ==
    \/ b.razorpay_payment_id = Absent
    \/ b.razorpay_order_id = Absent
    \/ b.razorpay_signature = Absent
    \/ b.courseId = Absent
    \/ b.courseTitle = Absent
    \/ b.userId = Absent

SignatureMatchesSwapped(b) ==
    HmacHex(RAZORPAY_KEY_SECRET,
            SignedPayload(b.razorpay_payment_id, b.razorpay_order_id))
        = b.razorpay_signature
\* razorpay.js:140-144.
SignatureMatches(b) ==
    HmacHex(RAZORPAY_KEY_SECRET,
            SignedPayload(b.razorpay_order_id, b.razorpay_payment_id))
        = b.razorpay_signature

\* razorpay.js:78.
NotConfigured == RAZORPAY_KEY_ID = Absent \/ RAZORPAY_KEY_SECRET = Absent \/ ~instance

\* The store mutations of a verification in the order the handler awaits them,
\* razorpay.js:168 and 173.
VerifyStepsAddFirst == <<"enrollments.add", "courses.update">>
VerifyStepsNoAdd == <<"courses.update">>
VerifySteps == <<"courses.update", "enrollments.add">>

\* What the handler does once the awaited mutation `op` has completed.
StepAfter(op) ==
    LET i == CHOOSE k \in 1..Len(VerifySteps) : VerifySteps[k] = op
    IN  IF i < Len(VerifySteps) THEN VerifySteps[i + 1] ELSE "respond"

\* The catch block of the verification, razorpay.js:189-192.
VerifyCatchSwallow == Response(200, "true", "success")
VerifyCatch == Response(500, "false", "verification_error")

\* The catch block of the order creation, razorpay.js:119-128.
CreateCatch == Response(500, "false", "order_failed")

Pending(op) == [op |-> op, outcome |-> "pending", changed |-> FALSE]

\* The synchronous stretch of the handler from its entry (razorpay.js:63) to its
\* first await, response or escaping exception.
HandlerEntry(m, b) ==
    LET answer(r) == [next |-> "done", out |-> <<r>>, call |-> <<>>]
        await(op) == [next |-> op, out |-> <<>>, call |-> <<Pending(op)>>]
    IN
    IF m = "OPTIONS" THEN answer(Response(200, "none", "preflight"))
    ELSE IF NotConfigured THEN answer(Response(500, "false", "not_configured"))
    ELSE IF m = "POST" /\ ~TypeofObject(b)
        THEN answer(Response(400, "false", "invalid_body"))
    ELSE IF m = "POST" THEN
        \* line 90: destructuring null throws a TypeError outside every try block
        IF b.kind = "null" THEN [next |-> "threw", out |-> <<>>, call |-> <<>>]
        ELSE IF b.action = "create_order" THEN
            IF MissingOrderDetails(b)
                THEN answer(Response(400, "false", "missing_order_details"))
            ELSE IF AmountTooLow(b)
                THEN answer(Response(400, "false", "amount_too_low"))
            ELSE await("orders.create")
        ELSE IF b.action = "verify_payment" THEN
            IF MissingVerificationDetails(b)
                THEN answer(Response(400, "false", "missing_verification_details"))
            ELSE IF ~SignatureMatches(b)
                THEN answer(Response(400, "false", "signature_failed"))
            ELSE await("courses.get")
        ELSE answer(Response(400, "false", "invalid_action"))
    ELSE answer(Response(200, "none", "info"))


----------------------------------------------------------------------------
(* The service.                                                            *)

Finished == {"done", "threw", "no_handler"}
InProgress(r) == pc[r] \in {"orders.create", "courses.get", "courses.update",
                            "enrollments.add"}

\* razorpay.js:160-162, on the snapshot the read returned.
AlreadyEnrolledNever(data, userId) == FALSE
AlreadyEnrolled(data, userId) == Includes(data.enrolledUsers, userId)

\* razorpay.js:173-184 (enrolledAt is assigned by the store and left out).
EnrollmentRecord(b, data) ==
    [userId |-> b.userId, courseId |-> b.courseId, courseTitle |-> b.courseTitle,
     paymentId |-> b.razorpay_payment_id, orderId |-> b.razorpay_order_id,
     amount |-> data.price, currency |-> "INR", enrollmentType |-> "Paid",
     status |-> "completed"]

\* Module initialisation, razorpay.js:15-60.  `keyId`, `keySecret` are the two
\* environment values (Absent when unset), `cred` tells whether
\* FIREBASE_SERVICE_ACCOUNT_KEY_BASE64 holds a usable service account.  Without an
\* app, what admin.firestore() (line 41) does is the library's business: it throws
\* and the module never loads, or it hands back a client whose calls all fail.
ModuleInit(keyId, keySecret, cred, noAppDb) ==
    /\ RAZORPAY_KEY_ID = keyId
    /\ RAZORPAY_KEY_SECRET = keySecret
    /\ instance = (keyId # Absent /\ keySecret # Absent)
    /\ firebaseApp = cred
    /\ db = IF cred THEN "ok" ELSE noAppDb

InitStore ==
    /\ courses \in {[c \in {"c1"} |-> [enrolledUsers |-> e, price |-> 49900]] :
                        e \in {<<>>, <<"u2">>}}
    /\ enrollments = <<>>
    /\ orders = <<>>

InitRequests ==
    /\ pc = [r \in Reqs |-> "new"]
    /\ req = [r \in Reqs |-> NoRequest]
    /\ courseData = [r \in Reqs |-> NoData]
    /\ resp = [r \in Reqs |-> <<>>]
    /\ calls = [r \in Reqs |-> <<>>]
    /\ seenDone = [r \in Reqs |-> {}]
    /\ enrolledOnArrival = [r \in Reqs |-> FALSE]

\* The deployed service: every environment variable is set.
Init ==
    /\ ModuleInit(KeyIdValue, SecretValue, TRUE, "ok")
    /\ InitStore
    /\ InitRequests

\* Any environment.
InitAnyConfig ==
    /\ \E keyId \in {KeyIdValue, Absent}, keySecret \in {SecretValue, Absent},
          cred \in BOOLEAN, noAppDb \in {"throws", "no_app"} :
            ModuleInit(keyId, keySecret, cred, noAppDb)
    /\ InitStore
    /\ InitRequests

Settle(r, outcome, changed) ==
    [calls EXCEPT ![r][Len(calls[r])] =
        [op |-> @.op, outcome |-> outcome, changed |-> changed]]

\* A request arrives and the handler runs to its first await.  Requests are
\* numbered in the order they arrive.
Receive(r) ==
    /\ pc[r] = "new"
    /\ db # "throws"
    /\ \A s \in Reqs : s < r => pc[s] # "new"
    /\ \E q \in Requests :
        LET h == HandlerEntry(q.method, q.body) IN
        /\ req' = [req EXCEPT ![r] = q]
        /\ pc' = [pc EXCEPT ![r] = h.next]
        /\ resp' = [resp EXCEPT ![r] = h.out]
        /\ calls' = [calls EXCEPT ![r] = h.call]
        /\ enrolledOnArrival' = [enrolledOnArrival EXCEPT ![r] =
                /\ q.body.courseId \in DOMAIN courses
                /\ Includes(courses[q.body.courseId].enrolledUsers, q.body.userId)]
    /\ seenDone' = [seenDone EXCEPT ![r] = {s \in Reqs : pc[s] \in Finished}]
    /\ UNCHANGED <<config, store, orders, courseData>>

\* razorpay.js:41 threw while the module was loading: server.js:30 never gets a
\* handler, and a request is answered by nothing in this code.
NoHandler(r) ==
    /\ pc[r] = "new"
    /\ db = "throws"
    /\ \A s \in Reqs : s < r => pc[s] # "new"
    /\ \E q \in Requests : req' = [req EXCEPT ![r] = q]
    /\ pc' = [pc EXCEPT ![r] = "no_handler"]
    /\ seenDone' = [seenDone EXCEPT ![r] = {s \in Reqs : pc[s] \in Finished}]
    /\ UNCHANGED <<config, store, orders, courseData, resp, calls, enrolledOnArrival>>

\* instance.orders.create settles, razorpay.js:111-128.
ProviderReturns(r) ==
    /\ pc[r] = "orders.create"
    /\ \/ /\ orders' = Append(orders, [amount |-> req[r].body.amount,
                                       currency |-> req[r].body.currency,
                                       courseId |-> req[r].body.courseId,
                                       userId |-> req[r].body.userId])
          /\ calls' = Settle(r, "ok", TRUE)
          /\ resp' = [resp EXCEPT ![r] = Append(@, Response(200, "true", "order_created"))]
       \/ /\ orders' = orders
          /\ calls' = Settle(r, "error", FALSE)
          /\ resp' = [resp EXCEPT ![r] = Append(@, CreateCatch)]
    /\ pc' = [pc EXCEPT ![r] = "done"]
    /\ UNCHANGED <<config, store, req, courseData, seenDone, enrolledOnArrival>>

\* The handler goes on after an awaited store call: the next mutation is issued,
\* or the success response is sent (razorpay.js:187).
Continue(r, next, settled) ==
    IF next = "respond"
    THEN /\ pc' = [pc EXCEPT ![r] = "done"]
         /\ resp' = [resp EXCEPT ![r] = Append(@, Response(200, "true", "success"))]
         /\ calls' = settled
    ELSE /\ pc' = [pc EXCEPT ![r] = next]
         /\ resp' = resp
         /\ calls' = [settled EXCEPT ![r] = Append(@, Pending(next))]

\* An awaited store call rejects: the catch block answers, razorpay.js:189-192.
Fail(r) ==
    /\ pc' = [pc EXCEPT ![r] = "done"]
    /\ resp' = [resp EXCEPT ![r] = Append(@, VerifyCatch)]
    /\ calls' = Settle(r, "error", FALSE)

\* courseRef.get() settles, razorpay.js:152-165.
CourseGetReturns(r) ==
    /\ pc[r] = "courses.get"
    /\ \/ /\ db = "ok"
          /\ LET id == req[r].body.courseId
                 data == IF id \in DOMAIN courses
                         THEN [exists |-> TRUE,
                               enrolledUsers |-> courses[id].enrolledUsers,
                               price |-> courses[id].price]
                         ELSE NoData
             IN
             /\ courseData' = [courseData EXCEPT ![r] = data]
             /\ IF ~data.exists
                THEN /\ pc' = [pc EXCEPT ![r] = "done"]
                     /\ resp' = [resp EXCEPT ![r] =
                                    Append(@, Response(404, "false", "course_not_found"))]
                     /\ calls' = Settle(r, "ok", FALSE)
                ELSE IF AlreadyEnrolled(data, req[r].body.userId)
                THEN /\ pc' = [pc EXCEPT ![r] = "done"]
                     /\ resp' = [resp EXCEPT ![r] =
                                    Append(@, Response(200, "true", "already_enrolled"))]
                     /\ calls' = Settle(r, "ok", FALSE)
                ELSE Continue(r, VerifySteps[1], Settle(r, "ok", FALSE))
       \/ /\ Fail(r)
          /\ courseData' = courseData
    /\ UNCHANGED <<config, store, orders, req, seenDone, enrolledOnArrival>>

\* courseRef.update({enrolledUsers: arrayUnion(userId)}) settles, razorpay.js:168-170.
CourseUpdateReturns(r) ==
    /\ pc[r] = "courses.update"
    /\ \/ /\ db = "ok"
          /\ LET id == req[r].body.courseId
                 u == req[r].body.userId
             IN
             /\ courses' = [courses EXCEPT ![id].enrolledUsers = ArrayUnion(@, u)]
             /\ Continue(r, StepAfter("courses.update"),
                         Settle(r, "ok", ~Includes(courses[id].enrolledUsers, u)))
       \/ /\ Fail(r)
          /\ courses' = courses
    /\ UNCHANGED <<config, enrollments, orders, req, courseData, seenDone, enrolledOnArrival>>

\* db.collection('enrollments').add(...) settles, razorpay.js:173-187.
EnrollmentAddReturns(r) ==
    /\ pc[r] = "enrollments.add"
    /\ \/ /\ db = "ok"
          /\ enrollments' = Append(enrollments,
                                   EnrollmentRecord(req[r].body, courseData[r]))
          /\ Continue(r, StepAfter("enrollments.add"), Settle(r, "ok", TRUE))
       \/ /\ Fail(r)
          /\ enrollments' = enrollments
    /\ UNCHANGED <<config, courses, orders, req, courseData, seenDone, enrolledOnArrival>>

Next ==
    \E r \in Reqs :
        \/ Receive(r)
        \/ ProviderReturns(r)
        \/ CourseGetReturns(r)
        \/ CourseUpdateReturns(r)
        \/ EnrollmentAddReturns(r)

NextAnyConfig ==
    \/ Next
    \/ \E r \in Reqs : NoHandler(r)

Spec == Init /\ [][Next]_vars
SpecAnyConfig == InitAnyConfig /\ [][NextAnyConfig]_vars


----------------------------------------------------------------------------
(* Vocabulary of the properties.                                           *)

IsPost(r) == req[r].method = "POST" /\ req[r].body.kind = "object"
IsCreate(r) == IsPost(r) /\ req[r].body.action = "create_order"
IsVerify(r) == IsPost(r) /\ req[r].body.action = "verify_payment"

\* A member the request lacks, read off the body itself.
Lacks(r, f) == req[r].body[f] = (IF f = "amount" THEN 0 ELSE Absent)

\* The signature the provider issues for the ids of the body.
IssuedSignature(b) ==
    HmacHex(SecretValue, SignedPayload(b.razorpay_order_id, b.razorpay_payment_id))

\* Every member present and the signature the provider's.
ValidVerify(r) ==
    /\ IsVerify(r)
    /\ \A f \in VerifyFields : ~Lacks(r, f)
    /\ req[r].body.razorpay_signature = IssuedSignature(req[r].body)

Issued(r, op) == \E i \in 1..Len(calls[r]) : calls[r][i].op = op
Did(r, op, outcome) ==
    \E i \in 1..Len(calls[r]) : calls[r][i].op = op /\ calls[r][i].outcome = outcome
Failed(r) == \E i \in 1..Len(calls[r]) : calls[r][i].outcome = "error"

\* The request's update put the user into the array.
Added(r) ==
    \E i \in 1..Len(calls[r]) :
        calls[r][i] = [op |-> "courses.update", outcome |-> "ok", changed |-> TRUE]

Answered(r, code, success, tag) == resp[r] = <<Response(code, success, tag)>>

HasRecord(userId, courseId) ==
    \E i \in 1..Len(enrollments) :
        enrollments[i].userId = userId /\ enrollments[i].courseId = courseId

SameEnrolment(r, t) ==
    /\ IsVerify(t)
    /\ req[t].body.courseId = req[r].body.courseId
    /\ req[t].body.userId = req[r].body.userId

\* No verification of the same course and user overlapped r.
RanAlone(r) ==
    \A t \in Reqs \ {r} :
        (pc[t] # "new" /\ SameEnrolment(r, t)) => (r \in seenDone[t] \/ t \in seenDone[r])

Quiescent == \A r \in Reqs : ~InProgress(r)

----------------------------------------------------------------------------
(* C1: a valid verification of a user who is not yet enrolled in an        *)
(* existing course, followed (after it has finished) by the same payload   *)
(* again, with no store call failing: the first is answered 200 'success', *)
(* the second 200 'already_enrolled'; the second issues neither the course *)
(* update nor the append, and the two together appended exactly one record.*)
C1_SequentialIdempotence ==
    \A r1, r2 \in Reqs :
        ( /\ ValidVerify(r1)
          /\ req[r1].body.courseId \in DOMAIN courses
          /\ ~enrolledOnArrival[r1]
          /\ RanAlone(r1)
          /\ req[r2] = req[r1]
          /\ r1 \in seenDone[r2]
          /\ pc[r2] = "done"
          /\ ~Failed(r1) /\ ~Failed(r2) )
        => /\ Answered(r1, 200, "true", "success")
           /\ Answered(r2, 200, "true", "already_enrolled")
           /\ ~Issued(r2, "courses.update")
           /\ ~Issued(r2, "enrollments.add")
           /\ Did(r1, "enrollments.add", "ok")
           /\ Cardinality({i \in 1..Len(enrollments) :
                             /\ enrollments[i].userId = req[r1].body.userId
                             /\ enrollments[i].courseId = req[r1].body.courseId}) = 1

C1_Witness ==
    \E r1, r2 \in Reqs :
        /\ ValidVerify(r1) /\ req[r2] = req[r1] /\ r1 \in seenDone[r2]
        /\ ~enrolledOnArrival[r1] /\ RanAlone(r1)
        /\ ~Failed(r1) /\ ~Failed(r2)
        /\ Answered(r1, 200, "true", "success")
        /\ Answered(r2, 200, "true", "already_enrolled")
        /\ Len(enrollments) = 1

(* C2: the enrollments collection never holds two records for the same     *)
(* (userId, courseId, orderId, paymentId), whatever the interleaving of    *)
(* the verifications.                                                      *)
C2_ExactlyOneRecord ==
    \A i, j \in 1..Len(enrollments) :
        ( /\ enrollments[i].userId = enrollments[j].userId
          /\ enrollments[i].courseId = enrollments[j].courseId
          /\ enrollments[i].orderId = enrollments[j].orderId
          /\ enrollments[i].paymentId = enrollments[j].paymentId )
        => i = j

(* C3: every course's enrolledUsers holds each userId at most once.        *)
C3_NoDuplicateEnrolment ==
    \A c \in DOMAIN courses :
        \A i, j \in 1..Len(courses[c].enrolledUsers) :
            courses[c].enrolledUsers[i] = courses[c].enrolledUsers[j] => i = j

\* Two verifications of the same user passed the already-enrolled check before
\* either updated, and both updates went through.
C3_Witness ==
    \E r1, r2 \in Reqs :
        /\ r1 # r2 /\ SameEnrolment(r1, r2)
        /\ Added(r1)
        /\ Did(r2, "courses.update", "ok") /\ ~Added(r2)

(* C4: a verification whose signature is not the HMAC of orderId|paymentId *)
(* is answered 400 with success false and makes no store call at all; one  *)
(* for a course that does not exist is answered 404 with success false     *)
(* after its read and issues neither the update nor the append.            *)
C4_RejectedLeavesStore ==
    \A r \in Reqs :
        (IsVerify(r) /\ pc[r] # "new" /\ \A f \in VerifyFields : ~Lacks(r, f)) =>
            /\ req[r].body.razorpay_signature # IssuedSignature(req[r].body)
                => /\ pc[r] = "done"
                   /\ Answered(r, 400, "false", "signature_failed")
                   /\ calls[r] = <<>>
            /\ ( /\ ValidVerify(r)
                 /\ req[r].body.courseId \notin DOMAIN courses
                 /\ pc[r] = "done" /\ ~Failed(r) )
                => /\ Answered(r, 404, "false", "course_not_found")
                   /\ calls[r] = <<[op |-> "courses.get", outcome |-> "ok",
                                    changed |-> FALSE]>>

C4_Witness ==
    \E r1, r2 \in Reqs :
        /\ Answered(r1, 400, "false", "signature_failed")
        /\ req[r1].body.razorpay_signature \in BadSignatures
        /\ Answered(r2, 404, "false", "course_not_found")
        /\ req[r2].body.courseId \notin DOMAIN courses

(* C5: once the signature check has passed, a failed read, update or       *)
(* append is answered 500 with success false, and the 'success' response   *)
(* is sent only after the update and the append of that request completed  *)
(* without error.                                                          *)
C5_NoSuccessOnFailure ==
    \A r \in Reqs :
        ValidVerify(r) =>
            /\ (pc[r] = "done" /\ Failed(r))
                 => Answered(r, 500, "false", "verification_error")
            /\ InProgress(r) => (resp[r] = <<>> /\ ~Failed(r))
            /\ (\E i \in 1..Len(resp[r]) : resp[r][i].success = "true"
                                            /\ resp[r][i].tag = "success")
                 => /\ Did(r, "courses.update", "ok")
                    /\ Did(r, "enrollments.add", "ok")
                    /\ ~Failed(r)

\* The update went through, the append failed, and the request was answered.
C5_Witness ==
    \E r \in Reqs :
        /\ ValidVerify(r) /\ pc[r] = "done"
        /\ Did(r, "courses.update", "ok")
        /\ Did(r, "enrollments.add", "error")

(* C6: a create_order lacking amount, currency, courseId or userId, or     *)
(* with amount < 100, and a verify_payment lacking one of its six members, *)
(* is answered 400 and never calls the provider or the store.              *)
C6_ValidationFirst ==
    \A r \in Reqs :
        ( /\ pc[r] # "new"
          /\ \/ IsCreate(r) /\ ( \/ \E f \in CreateFields : Lacks(r, f)
                                 \/ req[r].body.amount < 100 )
             \/ IsVerify(r) /\ \E f \in VerifyFields : Lacks(r, f) )
        => /\ pc[r] = "done"
           /\ Len(resp[r]) = 1
           /\ resp[r][1].code = 400
           /\ resp[r][1].success = "false"
           /\ calls[r] = <<>>

C6_Witness ==
    \E r1, r2 \in Reqs :
        /\ IsCreate(r1) /\ ~(\E f \in CreateFields : Lacks(r1, f))
        /\ req[r1].body.amount < 100
        /\ Answered(r1, 400, "false", "amount_too_low")
        /\ IsVerify(r2) /\ Lacks(r2, "courseTitle")
        /\ Answered(r2, 400, "false", "missing_verification_details")

(* C7: with the provider key id, the provider key secret or the store      *)
(* credentials absent, a create_order or verify_payment that needs the     *)
(* absent one is answered 500 'not configured' before any provider or      *)
(* store call.  A verification needs the store credentials when it is      *)
(* valid, so that it gets as far as the store.                             *)
C7_ConfigFailFast ==
    \A r \in Reqs :
        ( /\ pc[r] # "new"
          /\ \/ (IsCreate(r) \/ IsVerify(r))
                /\ (RAZORPAY_KEY_ID = Absent \/ RAZORPAY_KEY_SECRET = Absent)
             \/ ValidVerify(r) /\ ~firebaseApp )
        => /\ pc[r] = "done"
           /\ Answered(r, 500, "false", "not_configured")
           /\ calls[r] = <<>>

(* C8: every request is answered exactly once and no exception leaves the  *)
(* handler; what went wrong is reported as JSON with success false.        *)
C8_NoUnhandledFault ==
    \A r \in Reqs :
        /\ pc[r] # "threw"
        /\ pc[r] = "done" => Len(resp[r]) = 1
        /\ pc[r] # "done" => resp[r] = <<>>
        /\ (pc[r] = "done" /\ Failed(r)) => resp[r][1].success = "false"

(* C9: the append is issued only by a request that passed validation, the  *)
(* signature check, the course-exists check and the not-already-enrolled   *)
(* check and whose set-union update has completed without error; and every *)
(* record of the collection was appended by such a request.                *)
C9_AppendAfterUpdate ==
    /\ \A r \in Reqs :
        Issued(r, "enrollments.add") =>
            /\ ValidVerify(r)
            /\ courseData[r].exists
            /\ ~Includes(courseData[r].enrolledUsers, req[r].body.userId)
            /\ Len(calls[r]) = 3
            /\ calls[r][1] = [op |-> "courses.get", outcome |-> "ok", changed |-> FALSE]
            /\ calls[r][2].op = "courses.update" /\ calls[r][2].outcome = "ok"
            /\ calls[r][3].op = "enrollments.add"
    /\ Len(enrollments) = Cardinality({r \in Reqs : Did(r, "enrollments.add", "ok")})

C9_Witness ==
    \E r \in Reqs : Did(r, "enrollments.add", "ok") /\ Len(enrollments) > 0

====
